---------------------------- MODULE Spec2Model ----------------------------
(***************************************************************************)
(* A model of the Meshtastic tile downloader (main.go and the older        *)
(* variant of the same program kept in unnamed/part_000).                  *)
(*                                                                         *)
(* Representation.                                                         *)
(*   - Strings the program inspects character by character (region        *)
(*     strings, the DEBUG value, the prompt answer, Content-Type) are      *)
(*     sequences of one-character strings.  Strings it only compares or    *)
(*     uses as map keys (provider, style, API keys) are TLA+ strings.      *)
(*   - Degrees are integers in microdegrees (1e-6 degree); region strings  *)
(*     carry at most six fraction digits, so ParseFloat is exact.          *)
(*   - The file system is the set of tile directories and a function from  *)
(*     tile paths to file contents; the network is the log of GETs.        *)
(***************************************************************************)
EXTENDS Integers, Sequences, FiniteSets, TLC

(***************************************************************************)
(* Bounds of the model                                                     *)
(***************************************************************************)
\* DownloadTile calls modelled per ObtainTiles call; a longer loop is cut there.
MaxFetch == 5
\* HTTP GETs modelled per run; a run that would issue one more is cut there.
MaxGets == 2

(***************************************************************************)
(* strings                                                                 *)
(***************************************************************************)
UpperLetters == <<"A","B","C","D","E","F","G","H","I","J","K","L","M",
                  "N","O","P","Q","R","S","T","U","V","W","X","Y","Z">>
LowerLetters == <<"a","b","c","d","e","f","g","h","i","j","k","l","m",
                  "n","o","p","q","r","s","t","u","v","w","x","y","z">>

LowerChar(c) ==
    IF \E i \in 1..26 : UpperLetters[i] = c
    THEN LowerLetters[CHOOSE i \in 1..26 : UpperLetters[i] = c]
    ELSE c

\* strings.ToLower
ToLower(s) == [i \in 1..Len(s) |-> LowerChar(s[i])]

\* strings.HasPrefix
HasPrefix(s, prefix) ==
    /\ Len(s) >= Len(prefix)
    /\ SubSeq(s, 1, Len(prefix)) = prefix

\* strings.Split(s, ","): the fields between the commas, empty ones included
RECURSIVE Split(_)
Split(s) ==
    IF \E i \in 1..Len(s) : s[i] = ","
    THEN LET i == CHOOSE k \in 1..Len(s) :
                     s[k] = "," /\ \A j \in 1..(k-1) : s[j] # ","
         IN  <<SubSeq(s, 1, i-1)>> \o Split(SubSeq(s, i+1, Len(s)))
    ELSE <<s>>

DigitChars == <<"0","1","2","3","4","5","6","7","8","9">>
IsDigit(c) == \E i \in 1..10 : DigitChars[i] = c
DigitVal(c) == (CHOOSE i \in 1..10 : DigitChars[i] = c) - 1

RECURSIVE DigitsVal(_)
DigitsVal(ds) ==
    IF ds = <<>> THEN 0
    ELSE DigitsVal(SubSeq(ds, 1, Len(ds)-1)) * 10 + DigitVal(ds[Len(ds)])

\* the fraction digits as microdegrees: padded (or cut) to six digits
FracMicro(ds) ==
    IF Len(ds) <= 6 THEN DigitsVal(ds) * 10 ^ (6 - Len(ds))
    ELSE DigitsVal(SubSeq(ds, 1, 6))

\* the index of the first "." of s, Len(s) + 1 when it has none
DotIndex(s) ==
    IF \E i \in 1..Len(s) : s[i] = "."
    THEN CHOOSE i \in 1..Len(s) : s[i] = "." /\ \A j \in 1..(i-1) : s[j] # "."
    ELSE Len(s) + 1

\* the digits before and after the point: a number when all are digits and
\* there is at least one
ParseDigits(neg, ip, fp) ==
    IF /\ \A i \in 1..Len(ip) : IsDigit(ip[i])
       /\ \A i \in 1..Len(fp) : IsDigit(fp[i])
       /\ Len(ip) + Len(fp) > 0
    THEN [ok |-> TRUE,
          val |-> (IF neg THEN -1 ELSE 1) * (DigitsVal(ip) * 1000000 + FracMicro(fp))]
    ELSE [ok |-> FALSE, val |-> 0]

ParseUnsigned(neg, body) ==
    ParseDigits(neg, SubSeq(body, 1, DotIndex(body) - 1),
                SubSeq(body, DotIndex(body) + 1, Len(body)))

\* strconv.ParseFloat(s, 64) on the decimal notation [+-]digits[.digits]:
\* ok is FALSE where Go returns an error, val is the value in microdegrees.
ParseFloat(s) ==
    IF Len(s) > 0 /\ s[1] \in {"+", "-"}
    THEN ParseUnsigned(s[1] = "-", Tail(s))
    ELSE ParseUnsigned(FALSE, s)

(***************************************************************************)
(* Coordinate mapper                                                       *)
(***************************************************************************)
\* floor((q + r/360e6) * 2^n) for 0 <= r < 360e6, by binary long division
RECURSIVE ScaleFloor(_, _, _)
ScaleFloor(q, r, n) ==
    IF n = 0 THEN q
    ELSE ScaleFloor(2 * q + ((2 * r) \div 360000000), (2 * r) % 360000000, n - 1)

\* floor(((lon + 180.0) / 360.0) * 2^zoom), lon in microdegrees
LongToTileX(lon, zoom) ==
    ScaleFloor((lon + 180000000) \div 360000000,
               (lon + 180000000) % 360000000, zoom)

\* floor(((1 - ln(tan(lat) + 1/cos(lat)) / pi) / 2) * 2^16) at the latitudes
\* (microdegrees) the model's inputs use, evaluated with the source's formula
MercatorY16 ==
    (0 :> 32768) @@ (10000000 :> 30938) @@ (-10000000 :> 34597)
    @@ (85000000 :> 107) @@ (-85000000 :> 65428)
    @@ (89831 :> 32751) @@ (-89831 :> 32784)
    @@ (9910169 :> 30954) @@ (10089831 :> 30921)

\* floor(... * 2^zoom) for zoom <= 16: the zoom-16 value shifted right
LatToTileY(lat, zoom) == MercatorY16[lat] \div (2 ^ (16 - zoom))

(***************************************************************************)
(* The longitude mapper on float64 values.                                 *)
(*                                                                         *)
(* A double near a multiple of 2^-13 degree is the pair of that multiple   *)
(* (base, in units of 2^-13 degree) and a signed offset (off, in units of  *)
(* 2^-60 degree) far smaller than one unit of the base.  Every tile edge   *)
(* of zoom 0 to 16 is such a multiple: 360/2^16 degree is 45 units.  Each  *)
(* float64 operation of the source is applied as IEEE 754 defines it: the  *)
(* exact result rounded to the nearest double, ties to the even mantissa.  *)
(***************************************************************************)
DegreeUnits == 8192

\* floor(log2 n) for n >= 1
RECURSIVE Log2(_)
Log2(n) == IF n < 2 THEN 0 ELSE 1 + Log2(n \div 2)

IsPowerOfTwo(n) == n >= 1 /\ 2 ^ Log2(n) = n

\* n / d rounded to the nearest integer, ties to the even one (d > 0)
RoundHalfEven(n, d) ==
    IF 2 * (n % d) < d THEN n \div d
    ELSE IF 2 * (n % d) > d THEN (n \div d) + 1
    ELSE IF (n \div d) % 2 = 0 THEN n \div d
    ELSE (n \div d) + 1

\* the spacing of the doubles of the binade of base / 2^13 (at least 2^-8 in
\* magnitude), in offset units: 2^(e - 52) degree for 2^e <= |value| < 2^(e+1)
UlpOf(base) == 2 ^ (Log2(IF base < 0 THEN -base ELSE base) - 5)

\* the spacing of the doubles around base + off: just below a power of two
\* the doubles are twice as dense
UlpAt(base, off) ==
    IF off < 0 /\ IsPowerOfTwo(base) THEN UlpOf(base) \div 2 ELSE UlpOf(base)

\* the double that lies ulps doubles of its binade away from base / 2^13
Double(base, ulps) ==
    [base |-> base, off |-> IF ulps = 0 THEN 0 ELSE ulps * UlpOf(base)]

DoubleLess(a, b) == a.base < b.base \/ (a.base = b.base /\ a.off < b.off)

\* lon + 180.0: the sum of the bases is exact, the offset is rounded to the
\* spacing of the doubles at the sum
Plus180(lon) ==
    IF lon.base + 180 * DegreeUnits = 0 THEN [base |-> 0, off |-> lon.off]
    ELSE [base |-> lon.base + 180 * DegreeUnits,
          off  |-> RoundHalfEven(lon.off, UlpAt(lon.base + 180 * DegreeUnits, lon.off))
                     * UlpAt(lon.base + 180 * DegreeUnits, lon.off)]

\* (s / 360.0) for s = 45 * K units on the base: the quotient is K / 2^16 plus
\* s.off / 360 rounded to the spacing of the doubles at K / 2^16; the result
\* is that rounded offset counted in doubles
QuotientUlps(K, off) ==
    IF off < 0 /\ IsPowerOfTwo(K)
    THEN RoundHalfEven(off * 2 ^ 9, 360 * 2 ^ Log2(K))
    ELSE RoundHalfEven(off * 2 ^ 8, 360 * 2 ^ Log2(K))

\* floor(((lon + 180.0) / 360.0) * 2^zoom) for a double lon in [-180, 180):
\* off a tile edge of the zoom the product lies at least 2^-16 / 45 from a
\* whole number and its rounding error is below 2^-30, so the floor is the
\* floor of the exact product; on a tile edge the product is the edge's tile
\* number plus the rounded offset, and the multiplication by 2^zoom is exact
LongToTileXDouble(lon, zoom) ==
    IF Plus180(lon).base = 0 THEN 0
    ELSE IF Plus180(lon).base % 45 # 0
            \/ (Plus180(lon).base \div 45) % (2 ^ (16 - zoom)) # 0
    THEN (Plus180(lon).base \div 45) \div (2 ^ (16 - zoom))
    ELSE IF QuotientUlps(Plus180(lon).base \div 45, Plus180(lon).off) < 0
    THEN (Plus180(lon).base \div 45) \div (2 ^ (16 - zoom)) - 1
    ELSE (Plus180(lon).base \div 45) \div (2 ^ (16 - zoom))

\* (x / 2^zoom * 360.0) - 180.0 for 0 <= x <= 2^zoom, zoom <= 16: the quotient,
\* the product (45 * x / 2^(zoom - 3)) and the difference are all doubles, so
\* no operation rounds
TileXToLong(x, zoom) == Double(45 * x * 2 ^ (16 - zoom) - 180 * DegreeUnits, 0)

Min(a, b) == IF a <= b THEN a ELSE b
Max(a, b) == IF a >= b THEN a ELSE b


(***************************************************************************)
(* Providers, URLs and paths                                               *)
(***************************************************************************)
\* GetTileProviderURLTemplate: the providers and what each template substitutes
GetTileProviderURLTemplate ==
    [thunderforest |-> [host |-> "tile.thunderforest.com", style |-> TRUE, key |-> TRUE]]
    @@ ("geoapify" :> [host |-> "maps.geoapify.com", style |-> TRUE, key |-> TRUE])
    @@ ("cnig.es" :> [host |-> "tms-ign-base.idee.es", style |-> FALSE, key |-> FALSE])

\* IsValidProvider with the lookup lost: every provider name passes
AnyProviderValid(provider) == TRUE

\* IsValidProvider: the provider is a key of the template map
IsValidProvider(provider) == provider \in DOMAIN GetTileProviderURLTemplate

\* ParseURL: the template with style, zoom, x, y and key substituted; a
\* placeholder the template lacks leaves no trace in the URL
ParseURL(provider, style, key, zoom, x, y) ==
    LET t == GetTileProviderURLTemplate[provider]
    IN  [host  |-> t.host,
         style |-> IF t.style THEN style ELSE "",
         zoom  |-> zoom, x |-> x, y |-> y,
         key   |-> IF t.key THEN key ELSE ""]

\* strings.ToUpper(provider + "_API_KEY")
ProviderEnvVar(provider) ==
    CASE provider = "thunderforest" -> "THUNDERFOREST_API_KEY"
      [] provider = "geoapify"      -> "GEOAPIFY_API_KEY"
      [] provider = "cnig.es"       -> "CNIG.ES_API_KEY"
      [] provider = "mapbox"        -> "MAPBOX_API_KEY"

\* os.Getenv: the value of the variable, empty when it is not set
Getenv(env, name) == IF name \in DOMAIN env THEN env[name] ELSE ""

\* filepath.Join(outputDirectory, provider, style, zoom, x)
TileDir(outDir, provider, style, zoom, x) == outDir \o <<provider, style, zoom, x>>
\* filepath.Join(tileDir, "<y>.png")
TilePath(outDir, provider, style, zoom, x, y) ==
    [dir |-> TileDir(outDir, provider, style, zoom, x), name |-> y]

(***************************************************************************)
(* Region expansion and size estimation (ObtainTiles, first pass)          *)
(***************************************************************************)
\* the first of the four ParseFloat checks that fails on the fields
FieldsError(coords) ==
    IF Len(coords) # 4 THEN "invalid region format"
    ELSE IF ~ParseFloat(coords[1]).ok THEN "invalid latitude"
    ELSE IF ~ParseFloat(coords[2]).ok THEN "invalid longitude"
    ELSE IF ~ParseFloat(coords[3]).ok THEN "invalid latitude"
    ELSE IF ~ParseFloat(coords[4]).ok THEN "invalid longitude"
    ELSE "nil"

\* the error of the first check of the estimation pass that fails on region
RegionError(region) == FieldsError(Split(region))

\* the start and end tile numbers taken as the lower and the upper end
TileSpanAsGiven(startX, endX, startY, endY) ==
    [minX |-> startX, maxX |-> endX, minY |-> startY, maxY |-> endY]

\* min and max of the start and end tile numbers
TileSpan(startX, endX, startY, endY) ==
    [minX |-> Min(startX, endX), maxX |-> Max(startX, endX),
     minY |-> Min(startY, endY), maxY |-> Max(startY, endY)]

\* startX, endX from the longitudes; startY from maxLat, endY from minLat
CoordBounds(minLat, minLon, maxLat, maxLon, zoom) ==
    TileSpan(LongToTileX(minLon, zoom), LongToTileX(maxLon, zoom),
             LatToTileY(maxLat, zoom), LatToTileY(minLat, zoom))

\* minX, maxX, minY, maxY of one region at one zoom: the fields are minLat,
\* minLon, maxLat, maxLon in this order
FieldBounds(coords, zoom) ==
    CoordBounds(ParseFloat(coords[1]).val, ParseFloat(coords[2]).val,
                ParseFloat(coords[3]).val, ParseFloat(coords[4]).val, zoom)
RegionBounds(region, zoom) == FieldBounds(Split(region), zoom)

\* tilesX * tilesY
TileCount(b) == (b.maxX - b.minX + 1) * (b.maxY - b.minY + 1)
TilesInZoom(region, zoom) == TileCount(RegionBounds(region, zoom))

RECURSIVE SumTiles(_, _)
\* the sum of tilesInZoom over the regions, at one zoom
SumTiles(regions, zoom) ==
    IF regions = <<>> THEN 0
    ELSE TilesInZoom(Head(regions), zoom) + SumTiles(Tail(regions), zoom)

\* estimateTileSize with the zoom buckets lost: 20 KiB at every zoom
estimateTileSizeFlat(zoom) == 20 * 1024

\* estimateTileSize
estimateTileSize(zoom) ==
    IF zoom <= 5 THEN 20 * 1024
    ELSE IF zoom <= 8 THEN 30 * 1024
    ELSE IF zoom <= 11 THEN 50 * 1024
    ELSE IF zoom <= 14 THEN 80 * 1024
    ELSE 120 * 1024

RECURSIVE SumOver(_, _)
SumOver(S, f) ==
    IF S = {} THEN 0
    ELSE LET e == CHOOSE e \in S : TRUE IN f[e] + SumOver(S \ {e}, f)

RECURSIVE RegionsError(_)
\* the error of the first region that has one, "nil" when none has
RegionsError(regions) ==
    IF regions = <<>> THEN "nil"
    ELSE IF RegionError(Head(regions)) # "nil" THEN RegionError(Head(regions))
    ELSE RegionsError(Tail(regions))

\* tileCountByZoom[zoom] += tilesInZoom, over the zoom levels and the regions
TileCountByZoom(regions, zoomLevels) ==
    [z \in {zoomLevels[i] : i \in 1..Len(zoomLevels)} |->
        SumOver({i \in 1..Len(zoomLevels) : zoomLevels[i] = z},
                [i \in 1..Len(zoomLevels) |-> SumTiles(regions, z)])]

\* estimatedSize += count * estimateTileSize(zoom), over tileCountByZoom
EstimatedSize(counts) ==
    SumOver(DOMAIN counts, [z \in DOMAIN counts |-> counts[z] * estimateTileSize(z)])

EstimateResult(err, counts) ==
    IF err # "nil"
    THEN [err |-> err, totalTiles |-> 0, estimatedSize |-> 0]
    ELSE [err |-> "nil", totalTiles |-> SumOver(DOMAIN counts, counts),
          estimatedSize |-> EstimatedSize(counts)]

\* the first pass of ObtainTiles: the first error in zoom-then-region order
\* (none is met when there is no zoom level), or totalTiles and estimatedSize
EstimatePass(regions, zoomLevels) ==
    EstimateResult(IF zoomLevels = <<>> THEN "nil" ELSE RegionsError(regions),
                   TileCountByZoom(regions, zoomLevels))

\* the answer that lets a large download go on
Confirmed(answer) == ToLower(answer) = <<"y">> \/ ToLower(answer) = <<"y", "e", "s">>

\* the threshold with >= in the place of >
NeedsConfirmationAtLeast(estimatedSize) == estimatedSize >= 100 * 1024 * 1024

\* the size above which ObtainTiles asks: 100 * 1024 * 1024
NeedsConfirmation(estimatedSize) == estimatedSize > 100 * 1024 * 1024

(***************************************************************************)
(* The download loop of ObtainTiles as a cursor (zi, ri, x, y)             *)
(***************************************************************************)
\* the loop is over: every zoom level has been ranged over
LoopDone(o) == o.regions = <<>> \/ o.zi > Len(o.zoomLevels)

\* x, y start at minX, minY of the bounds b of region ri at zoom index zi
StartRegion(o, zi, ri, b) ==
    [o EXCEPT !.zi = zi, !.ri = ri, !.b = b, !.x = b.minX, !.y = b.minY]

\* the loop enters region ri at zoom index zi, or ends
EnterRegion(o, zi, ri) ==
    IF o.regions = <<>> \/ zi > Len(o.zoomLevels)
    THEN [o EXCEPT !.zi = Len(o.zoomLevels) + 1, !.ri = 1, !.x = 0, !.y = 0]
    ELSE StartRegion(o, zi, ri, RegionBounds(o.regions[ri], o.zoomLevels[zi]))

\* y++, then x++, then the next region, then the next zoom level
Advance(o) ==
    IF o.y + 1 <= o.b.maxY THEN [o EXCEPT !.y = o.y + 1]
    ELSE IF o.x + 1 <= o.b.maxX THEN [o EXCEPT !.x = o.x + 1, !.y = o.b.minY]
    ELSE IF o.ri + 1 <= Len(o.regions) THEN EnterRegion(o, o.zi, o.ri + 1)
    ELSE EnterRegion(o, o.zi + 1, 1)

(***************************************************************************)
(* Configuration                                                           *)
(***************************************************************************)
\* ValidateConfig with the range check of the reduce level lost: only the
\* default of 0 is set
ValidateConfigKeepsReduce(cfg, pointRadius) ==
    [config |-> [Zones |-> IF pointRadius THEN cfg.Zones
                           ELSE [n \in DOMAIN cfg.Zones |->
                                    [cfg.Zones[n] EXCEPT
                                        !.In  = IF @ = 0 THEN 8 ELSE @,
                                        !.Out = IF @ = 0 THEN 1 ELSE @]],
                 Map |-> [Provider |-> IF cfg.Map.Provider = "" THEN "thunderforest"
                                       ELSE cfg.Map.Provider,
                          Style |-> IF cfg.Map.Style = "" THEN "atlas" ELSE cfg.Map.Style,
                          Reduce |-> IF cfg.Map.Reduce = 0 THEN 12 ELSE cfg.Map.Reduce]],
     valid |-> IsValidProvider(IF cfg.Map.Provider = "" THEN "thunderforest"
                               ELSE cfg.Map.Provider)]

\* ValidateConfig: zone zoom defaults (skipped in point-radius mode), map
\* defaults, reduce coercion, and the provider check
ValidateConfig(cfg, pointRadius) ==
    LET zones == IF pointRadius THEN cfg.Zones
                 ELSE [n \in DOMAIN cfg.Zones |->
                          [cfg.Zones[n] EXCEPT
                              !.In  = IF @ = 0 THEN 8 ELSE @,
                              !.Out = IF @ = 0 THEN 1 ELSE @]]
        provider == IF cfg.Map.Provider = "" THEN "thunderforest" ELSE cfg.Map.Provider
        style == IF cfg.Map.Style = "" THEN "atlas" ELSE cfg.Map.Style
        reduce == IF cfg.Map.Reduce = 0 THEN 12
                  ELSE IF cfg.Map.Reduce < 1 \/ cfg.Map.Reduce > 16 THEN 100
                  ELSE cfg.Map.Reduce
    IN  [config |-> [Zones |-> zones,
                     Map |-> [Provider |-> provider, Style |-> style, Reduce |-> reduce]],
         valid |-> IsValidProvider(provider)]

\* IsInDebugMode accepting "true" alone
IsInDebugModeTrueOnly(debug) == ToLower(debug) = <<"t", "r", "u", "e">>

\* IsInDebugMode: DEBUG is set and is not "false" in any case
IsInDebugMode(debug) ==
    ToLower(debug) # <<"f", "a", "l", "s", "e">> /\ debug # <<>>

\* the two variables read in the other order: API_KEY first
ResolveGenericFirst(env, provider) ==
    IF Getenv(env, "API_KEY") # "" THEN Getenv(env, "API_KEY")
    ELSE Getenv(env, ProviderEnvVar(provider))

\* the API key main resolves: the provider's variable, else API_KEY
ResolveApiKey(env, provider) ==
    IF Getenv(env, ProviderEnvVar(provider)) # ""
    THEN Getenv(env, ProviderEnvVar(provider))
    ELSE Getenv(env, "API_KEY")

\* main refuses to run without a key, except for cnig.es
KeyMissing(key, provider) == key = "" /\ provider # "cnig.es"

\* Run's zoom level range of a zone: out..in in main.go, out..in-1 in part_000
ZoneZoomLevels(z, var) ==
    LET last == IF var = "main.go" THEN z.In ELSE z.In - 1
    IN  [i \in 1..(last - z.Out + 1) |-> z.Out + i - 1]

\* GetZoomLevelsForDetail with the default case lost: a level outside 1..4
\* gets an empty range
GetZoomLevelsNoDefault(detail) ==
    IF detail = 1 THEN <<6, 7, 8, 9, 10>>
    ELSE IF detail = 2 THEN <<7, 8, 9, 10, 11, 12>>
    ELSE IF detail = 3 THEN <<8, 9, 10, 11, 12, 13, 14>>
    ELSE IF detail = 4 THEN <<9, 10, 11, 12, 13, 14, 15, 16>>
    ELSE <<>>

\* GetZoomLevelsForDetail
GetZoomLevelsForDetail(detail) ==
    LET minZoom == CASE detail = 1 -> 6 [] detail = 2 -> 7 [] detail = 3 -> 8
                     [] detail = 4 -> 9 [] OTHER -> 7
        maxZoom == CASE detail = 1 -> 10 [] detail = 2 -> 12 [] detail = 3 -> 14
                     [] detail = 4 -> 16 [] OTHER -> 12
    IN  [i \in 1..(maxZoom - minZoom + 1) |-> minZoom + i - 1]

(***************************************************************************)
(* Point-radius bounds                                                     *)
(***************************************************************************)
\* floor((q + r/c) * 10^n) for 0 <= r < c, by long division
RECURSIVE ScaleDiv(_, _, _, _)
ScaleDiv(q, r, c, n) ==
    IF n = 0 THEN q
    ELSE ScaleDiv(10 * q + ((10 * r) \div c), (10 * r) % c, c, n - 1)

\* cos(lat * pi / 180) * 1e6 at the center latitudes the model's inputs use
CosMicro == (0 :> 1000000) @@ (10000000 :> 984808)

\* radiusKm / 111.32, in 1e-9 degree
LatRadiusNano(radius) ==
    ScaleDiv((radius * 100) \div 11132, (radius * 100) % 11132, 11132, 9)
\* radiusKm / (111.32 * cos(lat)), in 1e-9 degree
LongRadiusNano(radius, lat) ==
    ScaleDiv(LatRadiusNano(radius) \div CosMicro[lat],
             LatRadiusNano(radius) % CosMicro[lat], CosMicro[lat], 6)

\* a value in 1e-9 degree rounded to microdegrees, as "%.6f" prints it
RoundMicro(nano) == (nano + 500) \div 1000

\* CalculatePointRadiusBounds, the four values as "%.6f" will print them
CalculatePointRadiusBounds(center, radius) ==
    LET latRadius  == RoundMicro(LatRadiusNano(radius))
        longRadius == RoundMicro(LongRadiusNano(radius, center.Lat))
        minLat == center.Lat - latRadius
        maxLat == center.Lat + latRadius
        minLon == center.Long - longRadius
        maxLon == center.Long + longRadius
    IN  [minLat |-> IF minLat < -90000000 THEN -90000000 ELSE minLat,
         maxLat |-> IF maxLat > 90000000 THEN 90000000 ELSE maxLat,
         minLon |-> IF minLon < -180000000 THEN minLon + 360000000 ELSE minLon,
         maxLon |-> IF maxLon > 180000000 THEN maxLon - 360000000 ELSE maxLon]

RECURSIVE NatDigits(_)
\* the decimal digits of a natural number
NatDigits(n) ==
    IF n < 10 THEN <<DigitChars[n + 1]>>
    ELSE NatDigits(n \div 10) \o <<DigitChars[(n % 10) + 1]>>

\* fmt.Sprintf("%.6f", v) of a value in microdegrees
FormatMicro(v) ==
    LET mag  == IF v < 0 THEN 0 - v ELSE v
        frac == mag % 1000000
        fd   == NatDigits(frac)
        pad  == [i \in 1..(6 - Len(fd)) |-> "0"]
    IN  (IF v < 0 THEN <<"-">> ELSE <<>>)
        \o NatDigits(mag \div 1000000) \o <<".">> \o pad \o fd

\* regionStr of RunPointRadius: "%.6f,%.6f,%.6f,%.6f"
FormatRegion(b) ==
    FormatMicro(b.minLat) \o <<",">> \o FormatMicro(b.minLon) \o <<",">>
    \o FormatMicro(b.maxLat) \o <<",">> \o FormatMicro(b.maxLon)

\* folderName of RunPointRadius, "point_%.4f_%.4f_r%.1f_d%d": latitude and
\* longitude rounded to 1e-4 degree
FolderName(center, radius, detail) ==
    <<"point", (center.Lat + 50) \div 100, (center.Long + 50) \div 100, radius, detail>>


(***************************************************************************)
(* Tile fetch pipeline                                                     *)
(***************************************************************************)
NoFile == [kind |-> "none", fmt |-> "none"]

ImagePrefix == <<"i","m","a","g","e","/">>
ImagePng    == <<"i","m","a","g","e","/","p","n","g">>
ImageJpeg   == <<"i","m","a","g","e","/","j","p","e","g">>
TextHtml    == <<"t","e","x","t","/","h","t","m","l">>

\* What the world answers to one DownloadTile call: whether a missing tile
\* directory can be created, the HTTP exchange, and the disk.  A body's fmt
\* is the encoding image.Decode recognises in it ("none": it decodes to an
\* error).  A failed transport has no response; a body that cannot be read
\* has no content.
Responses ==
    {r \in [transport : {"ok", "error"}, status : {200, 404},
            contentType : {ImagePng, ImageJpeg, TextHtml},
            readOK : BOOLEAN, body : {"png", "jpeg", "none"}] :
        /\ r.transport = "error" => r.status = 404 /\ r.contentType = TextHtml /\ ~r.readOK
        /\ ~r.readOK => r.body = "none"}

\* the response is one whose body the code goes on to save
Saveable(r) ==
    r.transport = "ok" /\ r.status = 200 /\ r.contentType # TextHtml /\ r.readOK

\* Every body and every disk where the code saves the body; elsewhere a body
\* that is unreadable or a PNG, on a disk that works.
WorldInputs ==
    {in \in [mkdirOK : BOOLEAN, net : Responses,
             disk : {"ok", "createFails", "writeFails"}] :
        /\ ~in.mkdirOK => in.net.transport = "error" /\ in.disk = "ok"
        /\ ~Saveable(in.net) => in.disk = "ok" /\ in.net.body \in {"none", "png"}}

\* ReduceTile and SaveConvertedTile (the same code): decode, create, encode
SaveAsPng(body, disk) ==
    IF body = "none" THEN [err |-> "failed to decode image", write |-> NoFile]
    ELSE IF disk = "createFails" THEN [err |-> "failed to create file", write |-> NoFile]
    ELSE IF disk = "writeFails"
         THEN [err |-> "encode failed", write |-> [kind |-> "partial", fmt |-> "none"]]
    ELSE [err |-> "nil", write |-> [kind |-> "encoded", fmt |-> "png"]]

\* os.WriteFile(tilePath, imgData, 0644): open with create and truncate, write
WriteFile(body, disk) ==
    IF disk = "createFails" THEN [err |-> "open failed", write |-> NoFile]
    ELSE IF disk = "writeFails"
         THEN [err |-> "write failed", write |-> [kind |-> "partial", fmt |-> "none"]]
    ELSE [err |-> "nil", write |-> [kind |-> "verbatim", fmt |-> body]]

\* the routing with the Content-Type check lost: a tile that is not reduced
\* is written as received
SaveTileAsReceived(reducing, contentType, body, disk) ==
    IF reducing THEN SaveAsPng(body, disk)
    ELSE WriteFile(body, disk)

\* the routing after the body is read
SaveTile(reducing, contentType, body, disk) ==
    IF reducing THEN SaveAsPng(body, disk)
    ELSE IF contentType # ImagePng THEN SaveAsPng(body, disk)
    ELSE WriteFile(body, disk)

\* the checks with the status code check lost: any answered request is saved
\* when its Content-Type is an image
HandleResponseNoStatusCheck(reducing, net, disk) ==
    IF net.transport = "error" THEN [err |-> "failed to download", write |-> NoFile]
    ELSE IF ~HasPrefix(net.contentType, ImagePrefix)
         THEN [err |-> "not an image", write |-> NoFile]
    ELSE IF ~net.readOK THEN [err |-> "failed to read response body", write |-> NoFile]
    ELSE SaveTile(reducing, net.contentType, net.body, disk)

\* the checks on the response, in the code's order, then the save
HandleResponse(reducing, net, disk) ==
    IF net.transport = "error" THEN [err |-> "failed to download", write |-> NoFile]
    ELSE IF net.status # 200 THEN [err |-> "failed to download tile", write |-> NoFile]
    ELSE IF ~HasPrefix(net.contentType, ImagePrefix)
         THEN [err |-> "not an image", write |-> NoFile]
    ELSE IF ~net.readOK THEN [err |-> "failed to read response body", write |-> NoFile]
    ELSE SaveTile(reducing, net.contentType, net.body, disk)

\* the gates with the os.Stat check lost: only debug mode skips
SkipsInDebugOnly(exists, debug) == debug

\* the gates before the request: the file exists, or debug mode is on
SkipsDownload(exists, debug) == exists \/ debug

\* DownloadTile with the request moved before the os.Stat check: a tile that
\* exists is fetched and then left as it is
DownloadTileFetchesFirst(dirExists, exists, debug, reducing, in) ==
    IF ~dirExists /\ ~in.mkdirOK
    THEN [err |-> "failed to create directory", dir |-> FALSE, get |-> FALSE, write |-> NoFile]
    ELSE IF debug
    THEN [err |-> "nil", dir |-> TRUE, get |-> FALSE, write |-> NoFile]
    ELSE IF exists
    THEN [err |-> "nil", dir |-> TRUE, get |-> TRUE, write |-> NoFile]
    ELSE [err |-> HandleResponse(reducing, in.net, in.disk).err, dir |-> TRUE, get |-> TRUE,
          write |-> HandleResponse(reducing, in.net, in.disk).write]

\* DownloadTile: err, whether the tile directory exists afterwards, whether an
\* HTTP GET was issued, and what was written at the tile path.  os.MkdirAll
\* succeeds on a directory that exists and may fail on one that does not.
DownloadTileOutcome(dirExists, exists, debug, reducing, in) ==
    IF ~dirExists /\ ~in.mkdirOK
    THEN [err |-> "failed to create directory", dir |-> FALSE, get |-> FALSE, write |-> NoFile]
    ELSE IF SkipsDownload(exists, debug)
    THEN [err |-> "nil", dir |-> TRUE, get |-> FALSE, write |-> NoFile]
    ELSE LET r == HandleResponse(reducing, in.net, in.disk)
         IN  [err |-> r.err, dir |-> TRUE, get |-> TRUE, write |-> r.write]

\* the download loop returning at the first tile whose directory cannot be
\* created
AfterTileStopOnMkdir(o, next, err) ==
    IF err = "failed to create directory"
    THEN [o EXCEPT !.zi = Len(o.zoomLevels) + 1, !.ri = 1, !.x = 0, !.y = 0]
    ELSE next

\* the download loop returning at the first tile that fails
AfterTileStopOnError(o, next, err) ==
    IF err = "nil" THEN next
    ELSE [o EXCEPT !.zi = Len(o.zoomLevels) + 1, !.ri = 1, !.x = 0, !.y = 0]

\* the download loop after one DownloadTile call, next being the cursor on
\* the tile that follows: the error is logged, the progress bar advances, the
\* loop goes on
AfterTile(o, next, err) == next


(***************************************************************************)
(* Inputs: configurations, flags, environments                             *)
(***************************************************************************)
RegionPoint == <<"0", ",", "0", ",", "0", ",", "0">>
RegionWide  == <<"0", ",", "0", ",", "0", ",", "5">>
RegionWorld == <<"8","5", ",", "-","1","8","0", ",", "-","8","5", ",", "1","7","9">>
RegionThree == <<"0", ",", "0", ",", "0">>
RegionAlpha == <<"0", ",", "x", ",", "0", ",", "0">>
\* one box named from its north-east corner and from its south-west corner
RegionNorthEast == <<"1","0", ",", "1","0", ",", "0", ",", "0">>
RegionSouthWest == <<"0", ",", "0", ",", "1","0", ",", "1","0">>
\* a point on the equator at longitude 180
RegionDateLine == <<"0", ",", "1","8","0", ",", "0", ",", "1","8","0">>

Zone(regions, out, in) == [Regions |-> regions, In |-> in, Out |-> out]

\* no zone at all
ZonesNone == [n \in {} |-> Zone(<<>>, 0, 0)]
\* one zone, one tile per zoom level, zoom out left to its default
ZonesTiny == ("a" :> Zone(<<RegionPoint>>, 0, 2))
\* one zone naming the same region twice
ZonesTwice == ("a" :> Zone(<<RegionPoint, RegionPoint>>, 1, 2))
\* a zone above the confirmation threshold beside a small one
ZonesLarge == ("big" :> Zone(<<RegionWide>>, 15, 16))
              @@ ("town" :> Zone(<<RegionPoint>>, 1, 2))
\* a zone with a three-field region beside a well-formed zone
ZonesMalformed == ("ok" :> Zone(<<RegionPoint>>, 1, 2))
                  @@ ("bad" :> Zone(<<RegionPoint, RegionThree>>, 1, 2))
\* a zone whose only region has a field that is no number
ZonesAlpha == ("bad" :> Zone(<<RegionAlpha>>, 1, 2))
\* 5120 tiles at zoom 5: exactly 100 MiB estimated
ZonesExact == ("w" :> Zone(<<RegionWorld, RegionWorld, RegionWorld, RegionWorld,
                             RegionWorld>>, 5, 5))
\* 5121 tiles at zoom 5: one tile above 100 MiB
ZonesOver == ("w" :> Zone(<<RegionWorld, RegionWorld, RegionWorld, RegionWorld,
                            RegionWorld, RegionPoint>>, 5, 5))

\* one zone naming one box twice, by opposite corners
ZonesCorners == ("box" :> Zone(<<RegionNorthEast, RegionSouthWest>>, 4, 5))

\* one zone whose region lies on the east edge of the map
ZonesDateLine == ("east" :> Zone(<<RegionDateLine>>, 1, 1))

ZoneConfigs == {ZonesNone, ZonesTiny, ZonesTwice, ZonesLarge, ZonesMalformed,
                ZonesAlpha, ZonesExact, ZonesOver, ZonesCorners, ZonesDateLine}

ProviderInputs == {"", "thunderforest", "geoapify", "cnig.es", "mapbox"}
ReduceInputs == {-1, 0, 2, 17}
DebugInputs == {<<>>, <<"F", "a", "l", "s", "e">>, <<"1">>}
KeyVars == {"THUNDERFOREST_API_KEY", "GEOAPIFY_API_KEY", "CNIG.ES_API_KEY", "API_KEY"}
\* at most one provider variable is set, and API_KEY is set or not
KeyInputs ==
    {[v \in KeyVars |-> IF v = pv THEN "pkey" ELSE IF v = "API_KEY" THEN gk ELSE ""] :
        pv \in (KeyVars \ {"API_KEY"}) \cup {"none"}, gk \in {"", "gkey"}}
Answers == {<<>>, <<"y">>, <<"Y", "e", "s">>, <<"n">>, <<"y", "e", "a", "h">>}

NoFlags == [point |-> FALSE, lat |-> 0, long |-> 0, radius |-> 0, detail |-> 2]
PointFlags ==
    {[point |-> TRUE, lat |-> 10000000, long |-> 10000000, radius |-> 10, detail |-> 1],
     [point |-> TRUE, lat |-> 10000000, long |-> 10000000, radius |-> 10, detail |-> 7],
     [point |-> TRUE, lat |-> 10000000, long |-> 10000000, radius |-> 10, detail |-> 4],
     [point |-> TRUE, lat |-> 0, long |-> 0, radius |-> 10, detail |-> 1],
     [point |-> TRUE, lat |-> 10000000, long |-> 179950000, radius |-> 10, detail |-> 1],
     [point |-> TRUE, lat |-> 10000000, long |-> 10000000, radius |-> 0, detail |-> 1]}

\* the tile of RegionPoint at zoom 1, left by an earlier run or by anything else
OldFiles(provider) ==
    {[p \in {TilePath(<<"maps">>, provider, "atlas", 1, 1, 1)} |-> [kind |-> "old", fmt |-> f]] :
        f \in {"png", "none"}}


(***************************************************************************)
(* State                                                                   *)
(***************************************************************************)
VARIABLES
    variant,            \* which program runs: "main.go" or "part_000"
    environ,            \* the process environment: DEBUG and the key variables
    flags,              \* the command line (main.go)
    config,             \* m.config
    outputDirectory,    \* m.outputDirectory, a path as its components
    apiKey,             \* m.apiKey
    isPointRadius,      \* m.isPointRadius
    centerPoint,        \* m.centerPoint
    radiusKm,           \* m.radiusKm
    detailLevel,        \* m.detailLevel
    pc,                 \* where the process is
    exit,               \* the exit code (-1 while running) and where it was decided
    zonesLeft,          \* Run: the zones the range loop has not reached
    zone,               \* Run: the zone of the current iteration
    finished,           \* Run: the zones logged "Finished with zone"
    ot,                 \* the locals of the current (or last) ObtainTiles call
    originalOutputDir,  \* RunPointRadius: the saved output directory
    dirs,               \* the directories that exist: the output root and below
    files,              \* the tile files that exist: path -> content
    metadata,           \* the point directories that hold a metadata.txt
    gets,               \* the HTTP GETs issued so far, in order
    last,               \* the last DownloadTile call: what it saw and returned
    probe               \* a longitude handed to the coordinate mapper on its own

vars == <<variant, environ, flags, config, outputDirectory, apiKey, isPointRadius,
          centerPoint, radiusKm, detailLevel, pc, exit, zonesLeft, zone, finished,
          ot, originalOutputDir, dirs, files, metadata, gets, last, probe>>

fields == <<outputDirectory, apiKey, isPointRadius, centerPoint, radiusKm, detailLevel>>
world == <<dirs, files, metadata, gets, last>>
inputs == <<variant, environ, flags, probe>>

NoCall == [regions |-> <<>>, zoomLevels |-> <<>>, totalTiles |-> 0, estimatedSize |-> 0,
           prompted |-> FALSE, answer |-> <<>>, zi |-> 1, ri |-> 1,
           b |-> [minX |-> 0, maxX |-> 0, minY |-> 0, maxY |-> 0], x |-> 0, y |-> 0,
           calls |-> <<>>, ret |-> "none"]

NoLast == [zoom |-> -1, x |-> 0, y |-> 0, path |-> [dir |-> <<>>, name |-> 0],
           existed |-> FALSE, before |-> NoFile, debug |-> FALSE, reducing |-> FALSE,
           get |-> FALSE, status |-> 0, image |-> FALSE, contentType |-> <<>>,
           err |-> "nil", wrote |-> NoFile]

DefaultKeys == [v \in KeyVars |-> IF v = "THUNDERFOREST_API_KEY" THEN "pkey" ELSE ""]

Environ(debug, keys) == [DEBUG |-> debug, keys |-> keys]
MapConfig(zones, provider, style, reduce) ==
    [Zones |-> zones, Map |-> [Provider |-> provider, Style |-> style, Reduce |-> reduce]]

\* the gates of main: every provider with every key environment
GateInputs ==
    /\ flags = NoFlags
    /\ \E provider \in ProviderInputs : config = MapConfig(ZonesTiny, provider, "", 0)
    /\ \E keys \in KeyInputs : environ = Environ(<<"1">>, keys)
    /\ files = <<>>

\* the fetch pipeline: every reduce level with what an earlier run left
PipelineInputs ==
    /\ flags = NoFlags
    /\ \E zones \in {ZonesTiny, ZonesTwice}, reduce \in ReduceInputs :
         config = MapConfig(zones, "", "atlas", reduce)
    /\ \E debug \in {<<>>, <<"1">>} : environ = Environ(debug, DefaultKeys)
    /\ files \in {<<>>} \cup OldFiles("thunderforest")

\* Run and ObtainTiles: every zone configuration, DEBUG unset or set
ZoneInputs ==
    /\ flags = NoFlags
    /\ \E zones \in ZoneConfigs : config = MapConfig(zones, "", "atlas", 0)
    /\ \E debug \in {<<>>, <<"1">>} : environ = Environ(debug, DefaultKeys)
    /\ files = <<>>

\* point-radius mode: the flags with a known and an unknown provider; every
\* query as a dry run (DEBUG "1"), the ten-kilometre query at detail 1 also
\* as a fetching run (DEBUG "False")
PointInputs ==
    /\ variant = "main.go"
    /\ flags \in PointFlags
    /\ \E provider \in {"", "mapbox"} : config = MapConfig(ZonesTiny, provider, "", 0)
    /\ \E debug \in DebugInputs \ {<<>>} :
         /\ debug = <<"1">>
            \/ (flags.long = 10000000 /\ flags.radius = 10 /\ flags.detail = 1)
         /\ environ = Environ(debug, DefaultKeys)
    /\ files = <<>>

\* no longitude is handed to the mapper on its own
NoProbe == [step |-> "none", lon |-> Double(0, 0), zoom |-> 0, x |-> 0,
            west |-> Double(0, 0), east |-> Double(0, 0), back |-> 0]

Init ==
    /\ variant \in {"main.go", "part_000"}
    /\ \/ GateInputs
       \/ PipelineInputs
       \/ ZoneInputs
       \/ PointInputs
    /\ probe = NoProbe
    /\ dirs = IF files = <<>> THEN {} ELSE {<<"maps">>} \cup {p.dir : p \in DOMAIN files}
    /\ metadata = {}
    /\ outputDirectory = <<"maps">>
    /\ apiKey = ""
    /\ isPointRadius = FALSE
    /\ centerPoint = [Lat |-> 0, Long |-> 0]
    /\ radiusKm = 0
    /\ detailLevel = 0
    /\ pc = "main"
    /\ exit = [code |-> -1, at |-> "none"]
    /\ zonesLeft = {}
    /\ zone = ""
    /\ finished = {}
    /\ ot = NoCall
    /\ originalOutputDir = <<>>
    /\ gets = <<>>
    /\ last = NoLast


(***************************************************************************)
(* main                                                                    *)
(***************************************************************************)
Exit(code, at) ==
    /\ pc' = "exit"
    /\ exit' = [code |-> code, at |-> at]

\* main up to ValidateConfig: the output directory is created, then the
\* point-radius flags are checked and LoadConfig is called.  In point-radius
\* mode a config.yaml that cannot be loaded leaves the defaults; in zone mode
\* it is fatal.
MainFlags ==
    /\ pc = "main"
    /\ \E rootOK \in BOOLEAN, loaded \in BOOLEAN :
         IF outputDirectory \notin dirs /\ ~rootOK
         THEN /\ Exit(1, "output")
              /\ UNCHANGED <<config, fields, dirs>>
         ELSE /\ dirs' = dirs \cup {outputDirectory}
              /\ IF flags.point
                 THEN IF flags.lat = 0 /\ flags.long = 0
                      THEN /\ Exit(1, "flags")
                           /\ UNCHANGED <<config, fields>>
                      ELSE IF flags.radius <= 0
                      THEN /\ Exit(1, "flags")
                           /\ UNCHANGED <<config, fields>>
                      ELSE /\ isPointRadius' = TRUE
                           /\ centerPoint' = [Lat |-> flags.lat, Long |-> flags.long]
                           /\ radiusKm' = flags.radius
                           /\ detailLevel' = IF flags.detail < 1 \/ flags.detail > 4
                                             THEN 2 ELSE flags.detail
                           /\ config' = IF loaded THEN config
                                        ELSE [Zones |-> ZonesNone,
                                              Map |-> [Provider |-> "thunderforest",
                                                       Style |-> "atlas", Reduce |-> 12]]
                           /\ pc' = "validate"
                           /\ UNCHANGED <<exit, outputDirectory, apiKey>>
                 ELSE IF loaded
                      THEN /\ pc' = "validate"
                           /\ UNCHANGED <<exit, config, fields>>
                      ELSE /\ Exit(1, "config")
                           /\ UNCHANGED <<config, fields>>
    /\ UNCHANGED <<inputs, files, metadata, gets, last, zonesLeft, zone, finished, ot,
                   originalOutputDir>>

\* main: ValidateConfig, fatal when it returns false
MainValidateConfig ==
    /\ pc = "validate"
    /\ LET v == ValidateConfig(config, isPointRadius)
       IN  /\ config' = v.config
           /\ IF v.valid
              THEN pc' = "apikey" /\ UNCHANGED exit
              ELSE Exit(1, "validate")
    /\ UNCHANGED <<inputs, fields, world, zonesLeft, zone, finished, ot, originalOutputDir>>

\* main: the API key from the environment, and the refusal to run without one
MainApiKey ==
    /\ pc = "apikey"
    /\ LET key == ResolveApiKey(environ.keys, config.Map.Provider)
       IN  /\ apiKey' = key
           /\ IF KeyMissing(key, config.Map.Provider)
              THEN Exit(1, "apikey")
              ELSE pc' = "run" /\ UNCHANGED exit
    /\ UNCHANGED <<inputs, config, outputDirectory, isPointRadius, centerPoint, radiusKm,
                   detailLevel, world, zonesLeft, zone, finished, ot, originalOutputDir>>

(***************************************************************************)
(* Run, RunPointRadius, ObtainTiles                                        *)
(***************************************************************************)
\* ObtainTiles after the estimation pass e: its error, or the size gate and
\* the start of the download loop
AfterEstimate(o, e, size) ==
    IF e.err # "nil" THEN [o EXCEPT !.ret = e.err]
    ELSE [EnterRegion([o EXCEPT !.totalTiles = e.totalTiles, !.estimatedSize = size,
                                !.ret = "running"], 1, 1)
             EXCEPT !.prompted = NeedsConfirmation(size)]

\* ObtainTiles up to the download loop: the estimation pass and the size
\* gate.  part_000 has the tile count only: no estimate and no prompt.
BeginObtainTiles(regions, zoomLevels, var) ==
    AfterEstimate([NoCall EXCEPT !.regions = regions, !.zoomLevels = zoomLevels],
                  EstimatePass(regions, zoomLevels),
                  IF var = "main.go" THEN EstimatePass(regions, zoomLevels).estimatedSize
                  ELSE 0)

\* Run: the provider check and the choice of the mode
Run ==
    /\ pc = "run"
    /\ IF ~IsValidProvider(config.Map.Provider)
       THEN Exit(1, "run") /\ UNCHANGED zonesLeft
       ELSE IF isPointRadius
       THEN pc' = "pointradius" /\ UNCHANGED <<exit, zonesLeft>>
       ELSE /\ pc' = "zones"
            /\ zonesLeft' = DOMAIN config.Zones
            /\ UNCHANGED exit
    /\ UNCHANGED <<inputs, config, fields, world, zone, finished, ot, originalOutputDir>>

\* Run with the result o of the zone's ObtainTiles call up to its download loop
EnterZone(name, o) ==
    /\ zone' = name
    /\ zonesLeft' = zonesLeft \ {name}
    /\ ot' = o
    /\ IF o.ret # "running" THEN Exit(1, "run")
       ELSE /\ pc' = IF o.prompted THEN "prompt" ELSE "download"
            /\ UNCHANGED exit

\* Run: one iteration of the range over the zones, up to the download loop of
\* its ObtainTiles call; the order of a Go map range is not specified
RunZone ==
    /\ pc = "zones"
    /\ \E name \in zonesLeft :
         EnterZone(name, BeginObtainTiles(config.Zones[name].Regions,
                                          ZoneZoomLevels(config.Zones[name], variant),
                                          variant))
    /\ UNCHANGED <<inputs, config, fields, world, finished, originalOutputDir>>

\* Run: the range is over, Run returns true and main exits with 0
RunFinished ==
    /\ pc = "zones"
    /\ zonesLeft = {}
    /\ Exit(0, "run")
    /\ UNCHANGED <<inputs, config, fields, world, zonesLeft, zone, finished, ot,
                   originalOutputDir>>

\* RunPointRadius returning with the output directory left as it is
KeptOutputDir(pointRadius, original, current) == current

\* m.outputDirectory when the caller of ObtainTiles returns: RunPointRadius
\* puts originalOutputDir back on each of its return paths, Run never sets it
RestoredOutputDir(pointRadius, original, current) ==
    IF pointRadius THEN original ELSE current

\* RunPointRadius with its directory and the result o of its ObtainTiles call
\* up to the download loop
EnterPoint(pointOutputDir, o, mkdirOK, metaOK) ==
    IF pointOutputDir \notin dirs /\ ~mkdirOK
    THEN /\ Exit(1, "run")
         /\ UNCHANGED <<dirs, metadata, ot, outputDirectory, originalOutputDir>>
    ELSE /\ dirs' = dirs \cup {pointOutputDir}
         /\ metadata' = IF metaOK THEN metadata \cup {pointOutputDir} ELSE metadata
         /\ originalOutputDir' = outputDirectory
         /\ ot' = o
         /\ IF o.ret # "running"
            THEN Exit(1, "run") /\ UNCHANGED outputDirectory
            ELSE /\ outputDirectory' = pointOutputDir
                 /\ pc' = IF o.prompted THEN "prompt" ELSE "download"
                 /\ UNCHANGED exit

\* RunPointRadius up to the download loop of its ObtainTiles call
RunPointRadius ==
    /\ pc = "pointradius"
    /\ \E mkdirOK \in BOOLEAN, metaOK \in BOOLEAN :
         EnterPoint(outputDirectory \o <<FolderName(centerPoint, radiusKm, detailLevel)>>,
                    BeginObtainTiles(
                        <<FormatRegion(CalculatePointRadiusBounds(centerPoint, radiusKm))>>,
                        GetZoomLevelsForDetail(detailLevel), variant),
                    mkdirOK, metaOK)
    /\ UNCHANGED <<inputs, config, apiKey, isPointRadius, centerPoint, radiusKm, detailLevel,
                   files, gets, last, zonesLeft, zone, finished>>

\* ObtainTiles: the answer to "Continue? (y/n)".  Anything but y or yes
\* returns "download cancelled by user"; Run and RunPointRadius then return
\* true, which ends the process with exit code 0.
Confirm ==
    /\ pc = "prompt"
    /\ \E answer \in Answers :
         IF Confirmed(answer)
         THEN /\ ot' = [ot EXCEPT !.answer = answer]
              /\ pc' = "download"
              /\ UNCHANGED <<exit, outputDirectory, zonesLeft>>
         ELSE /\ ot' = [ot EXCEPT !.answer = answer, !.ret = "download cancelled by user"]
              /\ outputDirectory' = RestoredOutputDir(isPointRadius, originalOutputDir,
                                                      outputDirectory)
              /\ Exit(0, "run")
              /\ UNCHANGED zonesLeft
    /\ UNCHANGED <<inputs, config, apiKey, isPointRadius, centerPoint, radiusKm, detailLevel,
                   world, zone, finished, originalOutputDir>>

\* what one DownloadTile call with the outcome r leaves behind
TileCallEffect(zoom, tilePath, url, debug, next, in, r) ==
    /\ r.get => Len(gets) < MaxGets
    /\ dirs' = IF r.dir THEN dirs \cup {tilePath.dir} ELSE dirs
    /\ files' = IF r.write = NoFile THEN files
                ELSE [p \in DOMAIN files \cup {tilePath} |->
                         IF p = tilePath THEN r.write ELSE files[p]]
    /\ gets' = IF r.get THEN Append(gets, url) ELSE gets
    /\ last' = [zoom |-> zoom, x |-> ot.x, y |-> ot.y, path |-> tilePath,
                existed |-> tilePath \in DOMAIN files,
                before |-> IF tilePath \in DOMAIN files THEN files[tilePath] ELSE NoFile,
                debug |-> debug, reducing |-> zoom >= config.Map.Reduce, get |-> r.get,
                status |-> IF r.get /\ in.net.transport = "ok" THEN in.net.status ELSE 0,
                image |-> r.get /\ in.net.transport = "ok"
                          /\ HasPrefix(in.net.contentType, ImagePrefix),
                contentType |-> IF r.get /\ Saveable(in.net) THEN in.net.contentType
                                ELSE <<>>,
                err |-> r.err, wrote |-> r.write]
    /\ ot' = [AfterTile(ot, next, r.err) EXCEPT
                 !.calls = Append(ot.calls, <<zoom, ot.x, ot.y>>)]

\* DownloadTile(zoom, x, y) in every world, next being the cursor after it
CallDownloadTile(zoom, tilePath, url, debug, next) ==
    \E in \in WorldInputs :
        TileCallEffect(zoom, tilePath, url, debug, next, in,
                       DownloadTileOutcome(tilePath.dir \in dirs, tilePath \in DOMAIN files,
                                           debug, zoom >= config.Map.Reduce, in))

\* one iteration of the download loop
DownloadTile ==
    /\ pc = "download"
    /\ ~LoopDone(ot)
    /\ Len(ot.calls) < MaxFetch
    /\ CallDownloadTile(ot.zoomLevels[ot.zi],
                        TilePath(outputDirectory, config.Map.Provider, config.Map.Style,
                                 ot.zoomLevels[ot.zi], ot.x, ot.y),
                        ParseURL(config.Map.Provider, config.Map.Style, apiKey,
                                 ot.zoomLevels[ot.zi], ot.x, ot.y),
                        IsInDebugMode(environ.DEBUG), Advance(ot))
    /\ UNCHANGED <<inputs, config, fields, metadata, pc, exit, zonesLeft, zone, finished,
                   originalOutputDir>>

\* ObtainTiles returns nil after the loop: Run logs the zone as finished and
\* goes on; RunPointRadius restores the output directory and returns true
ObtainTilesReturn ==
    /\ pc = "download"
    /\ LoopDone(ot)
    /\ ot' = [ot EXCEPT !.ret = "nil"]
    /\ IF isPointRadius
       THEN /\ outputDirectory' = RestoredOutputDir(isPointRadius, originalOutputDir,
                                                    outputDirectory)
            /\ Exit(0, "run")
            /\ UNCHANGED finished
       ELSE /\ finished' = finished \cup {zone}
            /\ pc' = "zones"
            /\ UNCHANGED <<exit, outputDirectory>>
    /\ UNCHANGED <<inputs, config, apiKey, isPointRadius, centerPoint, radiusKm, detailLevel,
                   world, zonesLeft, zone, originalOutputDir>>

Next ==
    \/ MainFlags
    \/ MainValidateConfig
    \/ MainApiKey
    \/ Run
    \/ RunZone
    \/ RunFinished
    \/ RunPointRadius
    \/ Confirm
    \/ DownloadTile
    \/ ObtainTilesReturn

Spec == Init /\ [][Next]_vars

(***************************************************************************)
(* The coordinate mapper on its own: LongToTileX applied to a double and   *)
(* TileXToLong applied to its result, the program itself not started.      *)
(***************************************************************************)
MaxZoom == 16

\* the longitudes handed to the mapper: the west edges of a few tiles of four
\* zoom levels (-180, -90 and 90 among them) and two longitudes off every
\* edge (10 and -52 degrees), each with the two doubles on either side of it,
\* inside [-180, 180)
ProbeLongitudes ==
    {Double(base, ulps) :
        base \in UNION {{TileXToLong(x, z).base : x \in {0, 1, 3, 2 ^ z - 1}} :
                            z \in {2, 3, 9, MaxZoom}}
                   \cup {10 * DegreeUnits, -52 * DegreeUnits},
        ulps \in -2..2}
        \ {Double(-180 * DegreeUnits, ulps) : ulps \in {-2, -1}}

InitMapper ==
    /\ variant = "main.go"
    /\ ZoneInputs
    /\ config.Zones = ZonesTiny
    /\ environ.DEBUG = <<>>
    /\ \E lon \in ProbeLongitudes, zoom \in 0..MaxZoom :
         probe = [NoProbe EXCEPT !.step = "lon", !.lon = lon, !.zoom = zoom]
    /\ dirs = {}
    /\ metadata = {}
    /\ outputDirectory = <<"maps">>
    /\ apiKey = ""
    /\ isPointRadius = FALSE
    /\ centerPoint = [Lat |-> 0, Long |-> 0]
    /\ radiusKm = 0
    /\ detailLevel = 0
    /\ pc = "main"
    /\ exit = [code |-> -1, at |-> "none"]
    /\ zonesLeft = {}
    /\ zone = ""
    /\ finished = {}
    /\ ot = NoCall
    /\ originalOutputDir = <<>>
    /\ gets = <<>>
    /\ last = NoLast

\* x := m.LongToTileX(lon, zoom)
MapLongitude ==
    /\ probe.step = "lon"
    /\ probe' = [probe EXCEPT !.step = "tile",
                              !.x = LongToTileXDouble(probe.lon, probe.zoom)]
    /\ UNCHANGED <<variant, environ, flags, config, fields, pc, exit, zonesLeft, zone,
                   finished, ot, originalOutputDir, world>>

\* west := m.TileXToLong(x, zoom); east := m.TileXToLong(x+1, zoom);
\* back := m.LongToTileX(west, zoom)
MapBack ==
    /\ probe.step = "tile"
    /\ probe' = [probe EXCEPT !.step = "edges",
                              !.west = TileXToLong(probe.x, probe.zoom),
                              !.east = TileXToLong(probe.x + 1, probe.zoom),
                              !.back = LongToTileXDouble(TileXToLong(probe.x, probe.zoom),
                                                         probe.zoom)]
    /\ UNCHANGED <<variant, environ, flags, config, fields, pc, exit, zonesLeft, zone,
                   finished, ot, originalOutputDir, world>>

NextMapper ==
    \/ MapLongitude
    \/ MapBack

MapperSpec == InitMapper /\ [][NextMapper]_vars

(***************************************************************************)
(* Properties                                                              *)
(***************************************************************************)
\* the step is one DownloadTile call
Called == Len(ot'.calls) = Len(ot.calls) + 1
\* the tile of the call the download loop is about to make, and its path
CalledTile == <<ot.zoomLevels[ot.zi], ot.x, ot.y>>
CalledPath ==
    TilePath(outputDirectory, config.Map.Provider, config.Map.Style,
             ot.zoomLevels[ot.zi], ot.x, ot.y)
\* the tile was already called in this ObtainTiles call
CalledBefore == \E i \in 1..Len(ot.calls) : ot.calls[i] = CalledTile
\* DEBUG is set to a non-empty value other than "false" in any case
DebugOn ==
    /\ environ.DEBUG # <<>>
    /\ ToLower(environ.DEBUG) # <<"f", "a", "l", "s", "e">>
\* a DownloadTile call has been made
HasCalled == last.zoom # -1

\* C1: a DownloadTile call that finds a file at the tile's path returns nil,
\* issues no HTTP GET and leaves every file as it is, whatever the file holds,
\* the DEBUG value and the reduce level.
C1_ExistingTileIsSkipped ==
    [][(Called /\ CalledPath \in DOMAIN files)
          => (last'.err = "nil" /\ gets' = gets /\ files' = files)]_vars

\* C1 happens: outside debug mode, a call found a file that is no image and
\* left it
C1_Witness ==
    /\ HasCalled /\ last.existed /\ ~last.debug
    /\ last.before = [kind |-> "old", fmt |-> "none"]
    /\ files[last.path] = last.before

NthTile(b, zoom, k) ==
    <<zoom, b.minX + ((k - 1) \div (b.maxY - b.minY + 1)),
            b.minY + ((k - 1) % (b.maxY - b.minY + 1))>>
\* the first n tiles of the bounds b, or all of them
FirstTiles(b, zoom, n) == [k \in 1..Min(TileCount(b), n) |-> NthTile(b, zoom, k)]
\* the four numbers of a region string: minLat, minLon, maxLat, maxLon
FieldCoords(coords) ==
    <<ParseFloat(coords[1]).val, ParseFloat(coords[2]).val,
      ParseFloat(coords[3]).val, ParseFloat(coords[4]).val>>
RegionCoords(region) == FieldCoords(Split(region))
RECURSIVE RegionsCoords(_)
RegionsCoords(regions) ==
    IF regions = <<>> THEN <<>>
    ELSE <<RegionCoords(Head(regions))>> \o RegionsCoords(Tail(regions))
\* the bounds of the region with the numbers c at one zoom
CoordsBounds(c, zoom) == CoordBounds(c[1], c[2], c[3], c[4], zoom)
\* the first n tiles of the zoom-then-region-then-x-then-y enumeration, from
\* region ri of zoom level zi on; coords are the numbers of the regions and
\* b the bounds of that region at that zoom
RECURSIVE TilesFrom(_, _, _, _, _)
RECURSIVE TilesFromBounds(_, _, _, _, _, _)
TilesFromBounds(b, coords, zoomLevels, zi, ri, n) ==
    FirstTiles(b, zoomLevels[zi], n)
    \o TilesFrom(coords, zoomLevels,
                 IF ri < Len(coords) THEN zi ELSE zi + 1,
                 IF ri < Len(coords) THEN ri + 1 ELSE 1,
                 n - TileCount(b))
TilesFrom(coords, zoomLevels, zi, ri, n) ==
    IF n <= 0 \/ coords = <<>> \/ zi > Len(zoomLevels) THEN <<>>
    ELSE TilesFromBounds(CoordsBounds(coords[ri], zoomLevels[zi]),
                         coords, zoomLevels, zi, ri, n)
\* the first n tiles of the enumeration of the current ObtainTiles call
TilesOfCall(regions, zoomLevels, n) ==
    IF n = 0 THEN <<>>
    ELSE TilesFrom(RegionsCoords(regions), zoomLevels, 1, 1, n)

\* C3: in an ObtainTiles call that reaches the download loop the DownloadTile
\* calls are the tiles of the enumeration, each once and in zoom-then-region-
\* then-x-then-y order, whatever each call returns; and when the call returns
\* nil their number is the totalTiles of the estimation pass.
C3_EveryTileAttempted ==
    /\ ot.ret \in {"running", "nil"}
         => ot.calls = TilesOfCall(ot.regions, ot.zoomLevels, Len(ot.calls))
    /\ ot.ret = "nil" => Len(ot.calls) = ot.totalTiles
    /\ (pc = "download" /\ LoopDone(ot)) => Len(ot.calls) = ot.totalTiles

\* C3 happens: both tiles of a call were requested, both requests failed, and
\* the call returned nil
C3_Witness ==
    /\ ot.ret = "nil" /\ ot.totalTiles = 2 /\ Len(ot.calls) = 2
    /\ Len(gets) = 2 /\ files = <<>> /\ last.err # "nil"

\* C4 as stated: in zone mode a run that ends as a success has left no zone
\* unprocessed, a negative answer at the prompt of another zone included.
C4_OtherZonesStillRun ==
    (pc = "exit" /\ exit.code = 0 /\ exit.at = "run" /\ ~isPointRadius)
        => zonesLeft = {}

\* the configuration has a region string that is not four numeric fields
HasMalformedRegion ==
    \E n \in DOMAIN config.Zones :
        \E i \in 1..Len(config.Zones[n].Regions) :
            RegionError(config.Zones[n].Regions[i]) # "nil"

\* C5 as stated: in zone mode a run whose configuration has a malformed
\* region string issues no HTTP GET, for tiles of the other zones either.
C5_MalformedRegionNoNetwork ==
    (~flags.point /\ HasMalformedRegion) => gets = <<>>

\* C6: with a configured provider that, after the default of the empty name,
\* is none of thunderforest, geoapify and cnig.es, the process gets no
\* further than ValidateConfig and exits with failure: no tile file, no
\* directory below the output root (which main creates before it reads the
\* configuration) and no HTTP GET, in zone mode and in point-radius mode.
C6_UnknownProviderAborts ==
    (IF config.Map.Provider = "" THEN "thunderforest" ELSE config.Map.Provider)
            \notin {"thunderforest", "geoapify", "cnig.es"}
        => /\ pc \in {"main", "validate", "exit"}
           /\ pc = "exit" => exit.code = 1
           /\ gets = <<>> /\ files = <<>> /\ metadata = {}
           /\ dirs \subseteq {outputDirectory}

\* C6 happens: point-radius mode, an unknown provider, the exit at
\* ValidateConfig
C6_Witness ==
    /\ pc = "exit" /\ exit = [code |-> 1, at |-> "validate"]
    /\ isPointRadius /\ config.Map.Provider = "mapbox"

\* main is past the API key gate
PastKeyGate ==
    \/ pc \in {"run", "zones", "pointradius", "prompt", "download"}
    \/ pc = "exit" /\ exit.at = "run"
\* the provider's own variable when it is not empty, else API_KEY
ExpectedKey ==
    IF environ.keys[ProviderEnvVar(config.Map.Provider)] # ""
    THEN environ.keys[ProviderEnvVar(config.Map.Provider)]
    ELSE environ.keys["API_KEY"]

\* C7: the key is the provider's variable when not empty, else API_KEY; with
\* an empty key main exits with failure before Run and before any HTTP GET
\* unless the provider is cnig.es, and with cnig.es it does not exit there.
C7_ApiKeyGate ==
    /\ PastKeyGate => /\ apiKey = ExpectedKey
                      /\ apiKey # "" \/ config.Map.Provider = "cnig.es"
    /\ ~PastKeyGate => gets = <<>>
    /\ exit.at = "apikey" => /\ pc = "exit" /\ exit.code = 1
                             /\ ExpectedKey = ""
                             /\ config.Map.Provider # "cnig.es"

\* C7 happens: geoapify without a key of its own and without API_KEY is
\* refused, the key of another provider being set
C7_Witness ==
    /\ exit = [code |-> 1, at |-> "apikey"]
    /\ config.Map.Provider = "geoapify"
    /\ environ.keys["THUNDERFOREST_API_KEY"] # ""

\* C8: a DownloadTile call whose request was answered with a status other
\* than 200, or with 200 and a Content-Type that does not start with
\* "image/", returns an error, writes nothing, and no file is at the path.
C8_BadResponseWritesNothing ==
    (last.get /\ last.status # 0 /\ (last.status # 200 \/ ~last.image))
        => /\ last.err # "nil"
           /\ last.wrote = NoFile
           /\ last.path \notin DOMAIN files

\* C8 happens: status 200 with a Content-Type that is no image
C8_Witness ==
    /\ last.get /\ last.status = 200 /\ ~last.image
    /\ last.err = "not an image"

\* C9 as stated: in debug mode no step issues an HTTP GET or changes a tile
\* file, and every DownloadTile call returns nil.
C9_DebugNeverFails ==
    [][DebugOn => /\ gets' = gets /\ files' = files
                  /\ Called => last'.err = "nil"]_vars

\* C9 amended: in debug mode no step issues an HTTP GET or changes a tile
\* file, and a DownloadTile call returns nil unless the tile directory could
\* not be created, which it returns as an error.
C9_DebugFetchesNothing ==
    [][DebugOn => /\ gets' = gets /\ files' = files
                  /\ Called => IF CalledPath.dir \in dirs'
                               THEN last'.err = "nil"
                               ELSE last'.err = "failed to create directory"]_vars

\* C9 happens: a debug-mode call on a tile that would be reduced returned nil
\* beside an old file, with no request made
C9_Witness ==
    /\ DebugOn /\ HasCalled /\ last.err = "nil" /\ last.reducing
    /\ last.path.dir \in dirs /\ last.path \notin DOMAIN files
    /\ gets = <<>> /\ files # <<>>

\* the estimation pass of the current ObtainTiles call found no error
Estimated == ot.ret \in {"running", "nil", "download cancelled by user"}
\* the answer is y or yes in any case
SaidYes == ToLower(ot.answer) \in {<<"y">>, <<"y", "e", "s">>}

\* C10: the estimate is complete before the first DownloadTile call; the
\* prompt is shown exactly when the estimate is above 104857600 bytes; after
\* the prompt DownloadTile is called only on the answer y or yes in any
\* case, and any other answer returns the cancellation with no tile called.
C10_PreflightGate ==
    /\ (variant = "main.go" /\ Estimated /\ ot.calls = <<>>)
         => ot.estimatedSize = EstimatePass(ot.regions, ot.zoomLevels).estimatedSize
    /\ Estimated => (ot.prompted <=> ot.estimatedSize > 104857600)
    /\ pc = "prompt" => (Estimated /\ ot.prompted /\ ot.calls = <<>>)
    /\ (ot.prompted /\ (pc = "download" \/ ot.calls # <<>>)) => SaidYes
    /\ (Estimated /\ ot.prompted /\ pc # "prompt" /\ ~SaidYes)
         => ot.ret = "download cancelled by user" /\ ot.calls = <<>>
    /\ ot.ret = "download cancelled by user" => ot.prompted /\ ~SaidYes /\ ot.calls = <<>>

\* C10 happens: above the threshold the answer "Yes" let the download start
C10_Witness ==
    /\ ot.prompted /\ ot.estimatedSize > 104857600
    /\ ot.answer = <<"Y", "e", "s">> /\ ot.calls # <<>>

\* the integers from lo to hi, both included, in ascending order
IntRange(lo, hi) == [i \in 1..(hi - lo + 1) |-> lo + i - 1]

\* C11 as stated: in zone mode the zoom list of the zone whose ObtainTiles
\* call was made is out, out+1, ..., in, with both ends, in main.go and in
\* part_000.
C11_ZoomListInclusive ==
    (~isPointRadius /\ ot.ret # "none")
        => ot.zoomLevels = IntRange(config.Zones[zone].Out, config.Zones[zone].In)

\* C12 as stated: ValidateConfig turns every reduce value outside 1..16 into
\* 100 and keeps every value of 1..16.
C12_OutOfRangeBecomes100 ==
    [][pc = "validate"
          => config'.Map.Reduce = IF config.Map.Reduce \in 1..16
                                  THEN config.Map.Reduce ELSE 100]_vars

\* C12 amended: ValidateConfig turns the reduce value 0 into 12, every other
\* value outside 1..16 into 100, and keeps every value of 1..16; a tile is
\* treated as reducing exactly when its zoom is at least the value so set,
\* hence never when that value is 100.
C12_ReduceCoercion ==
    [][/\ pc = "validate"
            => config'.Map.Reduce = IF config.Map.Reduce = 0 THEN 12
                                    ELSE IF config.Map.Reduce \in 1..16
                                    THEN config.Map.Reduce
                                    ELSE 100
       /\ Called => /\ last'.reducing <=> CalledTile[1] >= config.Map.Reduce
                    /\ config.Map.Reduce \in (1..16) \cup {100}
                    /\ config.Map.Reduce = 100 => ~last'.reducing]_vars

\* C12 happens: a reduce value outside 0..16 became 100, and a PNG tile was
\* then written as received
C12_Witness ==
    /\ config.Map.Reduce = 100
    /\ HasCalled /\ ~last.reducing /\ last.err = "nil"
    /\ last.wrote = [kind |-> "verbatim", fmt |-> "png"]

\* the output root main set, and the directory of the point-radius query
OutputRoot == <<"maps">>
PointOutputDir == OutputRoot \o <<FolderName(centerPoint, radiusKm, detailLevel)>>

\* C13: in point-radius mode outputDirectory is the point directory only
\* while the ObtainTiles call of RunPointRadius is running; once
\* RunPointRadius has returned, by a directory-creation failure, an
\* ObtainTiles error, a cancellation or a normal completion, it is the
\* value it had on entry.  Outside point-radius mode it never changes.
C13_OutputDirectoryRestored ==
    /\ (isPointRadius /\ pc \in {"prompt", "download"})
         => /\ outputDirectory = PointOutputDir
            /\ originalOutputDir = OutputRoot
    /\ ~(isPointRadius /\ pc \in {"prompt", "download"})
         => outputDirectory = OutputRoot

\* C13 happens: a point-radius query was cancelled at the prompt after its
\* directory and metadata were written, and the output root is back
C13_Witness ==
    /\ isPointRadius /\ pc = "exit" /\ exit = [code |-> 0, at |-> "run"]
    /\ ot.ret = "download cancelled by user"
    /\ PointOutputDir \in dirs /\ PointOutputDir \in metadata
    /\ originalOutputDir = OutputRoot /\ outputDirectory = OutputRoot

\* the fields joined with commas
RECURSIVE JoinFields(_)
JoinFields(fs) ==
    IF Len(fs) = 1 THEN fs[1]
    ELSE fs[1] \o <<",">> \o JoinFields(Tail(fs))
\* "c,d,a,b" for the fields a, b, c, d: the two corners swapped
SwapFields(fs) == JoinFields(<<fs[3], fs[4], fs[1], fs[2]>>)
SwapCorners(region) == SwapFields(Split(region))
\* the tiles the download loop ranges over for the bounds b
TileSet(b, zoom) == {<<zoom, x, y>> : x \in b.minX..b.maxX, y \in b.minY..b.maxY}
\* the bounds a and b give the same bounds, tiles and tile count
SameExpansion(a, b, zoom) ==
    /\ a = b
    /\ TileSet(a, zoom) = TileSet(b, zoom)
    /\ TileCount(a) = TileCount(b)
\* the region and the zoom level the download loop is in
LoopRegion == ot.regions[ot.ri]
LoopZoom == ot.zoomLevels[ot.zi]

\* C14: for the region and zoom the download loop is in, the region string
\* with its two corners swapped expands to the same bounds, hence to the same
\* set of tiles and the same tile count.
C14_CornerOrderIndependent ==
    (ot.ret = "running" /\ ~LoopDone(ot))
        => SameExpansion(RegionBounds(SwapCorners(LoopRegion), LoopZoom), ot.b, LoopZoom)

\* C14 happens: "10,10,0,0" and then "0,0,10,10" were ranged over at one zoom
\* and gave the same two tiles
C14_Witness ==
    /\ ot.regions = <<RegionNorthEast, RegionSouthWest>>
    /\ Len(ot.calls) = 4
    /\ ot.calls[1] # ot.calls[2]
    /\ ot.calls[3] = ot.calls[1] /\ ot.calls[4] = ot.calls[2]

\* the detail levels the mapping is evaluated at: 1..4 and values around them
DetailLevels == -2..7
\* the zoom range the mapping is to give for a detail level
DetailRange(detail) ==
    CASE detail = 1 -> IntRange(6, 10)
      [] detail = 3 -> IntRange(8, 14)
      [] detail = 4 -> IntRange(9, 16)
      [] OTHER -> IntRange(7, 12)

\* C15: GetZoomLevelsForDetail gives 6..10 for 1, 7..12 for 2, 8..14 for 3,
\* 9..16 for 4 and 7..12 for every other level, each as the ascending range
\* with both ends; and the zoom list of a point-radius query is that of the
\* level given on the command line, or of level 2 when that is outside 1..4.
C15_DetailMappingTotal ==
    /\ \A d \in DetailLevels : GetZoomLevelsForDetail(d) = DetailRange(d)
    /\ (isPointRadius /\ ot.ret # "none") => ot.zoomLevels = DetailRange(flags.detail)

\* C15 happens: the detail level 7 on the command line gave the zoom list of
\* level 2, and the query ran at zoom 7
C15_Witness ==
    /\ isPointRadius /\ flags.detail = 7 /\ detailLevel = 2
    /\ ot.zoomLevels = <<7, 8, 9, 10, 11, 12>>
    /\ HasCalled /\ last.zoom = 7

\* C16: a DownloadTile call that got status 200 with an image Content-Type
\* and returned nil wrote the body as received exactly when the tile is not
\* reducing and the Content-Type is image/png, and wrote a PNG encoding of
\* the decoded body otherwise; the file at the tile's path is what it wrote,
\* and no other file was created or changed.
C16_SaveRouting ==
    [][(Called /\ last'.get /\ last'.status = 200 /\ last'.image /\ last'.err = "nil")
          => /\ last'.wrote.kind = "verbatim"
                    <=> (CalledTile[1] < config.Map.Reduce /\ last'.contentType = ImagePng)
             /\ last'.wrote.kind # "verbatim"
                    => last'.wrote = [kind |-> "encoded", fmt |-> "png"]
             /\ DOMAIN files' = DOMAIN files \cup {CalledPath}
             /\ \A p \in DOMAIN files' :
                    files'[p] = IF p = CalledPath THEN last'.wrote ELSE files[p]]_vars

\* C16 happens: a tile at the zoom level that equals the reduce level came
\* as image/jpeg and is on disk as a PNG
C16_Witness ==
    /\ HasCalled /\ last.err = "nil" /\ last.get
    /\ last.zoom = config.Map.Reduce /\ last.reducing
    /\ last.contentType = ImageJpeg
    /\ files[last.path] = [kind |-> "encoded", fmt |-> "png"]

\* the bucket of a zoom level in KiB
BucketKiB(zoom) ==
    IF zoom <= 5 THEN 20 ELSE IF zoom <= 8 THEN 30 ELSE IF zoom <= 11 THEN 50
    ELSE IF zoom <= 14 THEN 80 ELSE 120
\* count(z): the sum over the regions, from region i on, of the tile counts
\* (maxX-minX+1)*(maxY-minY+1) at zoom z
RECURSIVE ZoomCount(_, _, _)
ZoomCount(coords, i, z) ==
    IF i > Len(coords) THEN 0
    ELSE TileCount(CoordsBounds(coords[i], z)) + ZoomCount(coords, i + 1, z)
\* count(z) at each of the zoom levels of a zoom list
ZoomCounts(coords, zoomLevels) ==
    [z \in {zoomLevels[i] : i \in 1..Len(zoomLevels)} |-> ZoomCount(coords, 1, z)]
\* the sum over the zoom levels of count(z) * bucket(z), in bytes
SumOfBuckets(counts) ==
    SumOver(DOMAIN counts, [z \in DOMAIN counts |-> counts[z] * BucketKiB(z) * 1024])
\* size is that sum, and one more tile at any zoom level adds the bucket of
\* that level to the estimate the code computes
SizeIsSumOfBuckets(size, counts) ==
    /\ size = SumOfBuckets(counts)
    /\ EstimatedSize(counts) = size
    /\ \A z \in DOMAIN counts :
          /\ EstimatedSize([counts EXCEPT ![z] = @ + 1]) = size + BucketKiB(z) * 1024
          /\ EstimatedSize([counts EXCEPT ![z] = @ + 1]) >= size

\* C17: in main.go the estimated size of an ObtainTiles call is the sum over
\* the zoom levels z of its list of count(z) * bucket(z), count(z) being the
\* sum over the regions of (maxX-minX+1)*(maxY-minY+1) and bucket(z) 20, 30,
\* 50, 80 or 120 KiB for z up to 5, 8, 11, 14 and above; and the estimate
\* does not decrease when a count grows.
C17_EstimateIsSumOfBuckets ==
    (variant = "main.go" /\ Estimated /\ ot.calls = <<>>)
        => SizeIsSumOfBuckets(ot.estimatedSize,
                              ZoomCounts(RegionsCoords(ot.regions), ot.zoomLevels))

\* C17 happens: the estimate of a point-radius query over the zoom levels 9
\* to 16, which lie in four buckets, above the confirmation threshold
C17_Witness ==
    /\ variant = "main.go" /\ Estimated
    /\ ot.zoomLevels = <<9, 10, 11, 12, 13, 14, 15, 16>>
    /\ ot.totalTiles > 8
    /\ ot.estimatedSize > 104857600

\* C18: whenever LongToTileX has mapped a longitude lon of [-180, 180) to the
\* tile x of a zoom level, TileXToLong(x, zoom) <= lon < TileXToLong(x+1, zoom),
\* and LongToTileX maps TileXToLong(x, zoom) back to x.
C18_LongitudeBracketed ==
    probe.step = "edges" =>
        /\ ~DoubleLess(probe.lon, probe.west)
        /\ DoubleLess(probe.lon, probe.east)
        /\ probe.back = probe.x

\* C19 as stated: once a DownloadTile call of an ObtainTiles call has failed to
\* create the tile's directory, no further tile is attempted in that call and
\* the call does not return nil.
C19_DirectoryFailureStopsZone ==
    [][(pc = "download" /\ ot.calls # <<>> /\ last.err = "failed to create directory")
           => ~Called /\ ot'.ret # "nil"]_vars

\* C19 amended: a failure to create a tile's directory is fatal for that tile
\* only.  The call issues no request and writes no file, the loop goes on to
\* the tile that follows exactly as after a success, and ObtainTiles returns
\* nil when the loop ends.
C19_DirectoryFailureSkipsTile ==
    [][/\ (Called /\ last'.err = "failed to create directory") =>
              /\ gets' = gets
              /\ files' = files
              /\ CalledPath.dir \notin dirs'
              /\ pc' = "download"
              /\ [ot' EXCEPT !.calls = ot.calls] = Advance(ot)
       /\ (pc = "download" /\ ot.calls # <<>> /\ last.err = "failed to create directory" /\ ~Called)
              => ot'.ret = "nil"]_vars

\* C19 happens: the directory of the first tile of a zone could not be
\* created, the next tile was fetched and saved, and ObtainTiles returned nil
C19_Witness ==
    /\ ~isPointRadius
    /\ ot.ret = "nil"
    /\ Len(ot.calls) >= 2
    /\ TilePath(outputDirectory, config.Map.Provider, config.Map.Style,
                ot.calls[1][1], ot.calls[1][2], ot.calls[1][3]).dir \notin dirs
    /\ last.get
    /\ last.err = "nil"
    /\ last.path \in DOMAIN files

\* C20: a DownloadTile call that returns an error for a tile that had no file
\* leaves no file at the tile's path, and a tile that a failed call left
\* behind is requested again by the next call for it (outside debug mode).
C20_FailedTileLeavesNoFile ==
    [][Called =>
          /\ (CalledPath \notin DOMAIN files /\ last'.err # "nil")
                 => CalledPath \notin DOMAIN files'
          /\ (~DebugOn /\ CalledPath \in DOMAIN files /\ files[CalledPath].kind = "partial")
                 => last'.get]_vars



\* the longitudes of every region of the current ObtainTiles call lie in
\* [-180, 180]
LongitudesInRange ==
    \A i \in 1..Len(ot.regions) :
        /\ RegionCoords(ot.regions[i])[2] \in -180000000..180000000
        /\ RegionCoords(ot.regions[i])[4] \in -180000000..180000000

\* C21: every tile handed to DownloadTile for regions whose longitudes lie in
\* [-180, 180] has a column x with 0 <= x <= 2^zoom - 1.
C21_ColumnInRange ==
    (ot.calls # <<>> /\ LongitudesInRange) =>
        \A i \in 1..Len(ot.calls) :
            ot.calls[i][2] \in 0..(2 ^ ot.calls[i][1] - 1)

\* the circle of the point query leaves [-180, 180] on one side
CrossesAntimeridian ==
    /\ isPointRadius
    /\ \/ centerPoint.Long - RoundMicro(LongRadiusNano(radiusKm, centerPoint.Lat)) < -180000000
       \/ centerPoint.Long + RoundMicro(LongRadiusNano(radiusKm, centerPoint.Lat)) > 180000000

\* the number of columns of the same circle around longitude 0
ColumnsAway(zoom) ==
    LongToTileX(RoundMicro(LongRadiusNano(radiusKm, centerPoint.Lat)), zoom)
        - LongToTileX(0 - RoundMicro(LongRadiusNano(radiusKm, centerPoint.Lat)), zoom) + 1

\* C22: when the circle of a point query crosses the antimeridian, every
\* column handed to DownloadTile overlaps the wrapped interval from
\* centerLon - lonDelta eastwards across 180 to centerLon + lonDelta, and the
\* columns of a zoom level are at most one more than for the same circle away
\* from the antimeridian.
C22_WrappedColumnsOnly ==
    (CrossesAntimeridian /\ ot.calls # <<>>) =>
        /\ \A i \in 1..Len(ot.calls) :
              \/ ot.calls[i][2] >= LongToTileX(RegionCoords(ot.regions[1])[2], ot.calls[i][1])
              \/ ot.calls[i][2] <= LongToTileX(RegionCoords(ot.regions[1])[4], ot.calls[i][1])
        /\ ot.b.maxX - ot.b.minX + 1 <= ColumnsAway(last.zoom) + 1


=============================================================================
